---------------------------- MODULE Spec2Model ----------------------------
(***************************************************************************)
(* WanderStay (src/wanderstay.py): the cached load-and-train step, the     *)
(* chatbot response function and the Home branch of main with its CSV chat *)
(* log, run by concurrent Streamlit sessions (one script run per session). *)
(*                                                                         *)
(* A text is a sequence of words.  A corpus document is the parsed content *)
(* of patterns.json.  Library calls are modelled by what they do to the    *)
(* program: TfidfVectorizer by its vocabulary of word n-grams, the fitted  *)
(* LogisticRegression by its label set classes_ (predict returns one of    *)
(* them; which one is a numerical matter the model leaves open), and       *)
(* st.cache_resource by its cache, its compute lock and the re-check of    *)
(* the cache under that lock.  The History and About branches of main only *)
(* read; they and the per-session message list are left out.  A log row    *)
(* carries "now" for its timestamp.                                        *)
(***************************************************************************)
EXTENDS Integers, Sequences, FiniteSets, TLC

\* ------------------------------------------------------------- bounds
MaxRecords == 2
NumSessions == 2

\* ---------------------------------------------------------- constants
NGramMax == 4

\* ----------------------------------------------------------- universe
Sessions == 1..NumSessions
NoSession == 0

Tags == {"greeting", "bye"}
RemovedTag == "removed"
UnknownTag == "unknown"
TagUniverse == Tags \cup {RemovedTag, UnknownTag}


ChatTexts == { <<>>, <<"?">>, <<"a">>, <<"Hi">>, <<"xyz">>, <<"hi", "bye">> }

\* What a session may type.
SessionTexts == { <<>>, <<"Hi">>, <<"xyz">> }

PatternLists ==
    { <<>>,
      << <<"Hi">> >>,
      << <<"?">> >>,
      << <<"bye">>, <<"hi", "bye">> >> }

ResponseLists == { <<>>, <<"Hello!">>, <<"Hello!", "Bye">> }

Records == [tag : Tags, patterns : PatternLists, responses : ResponseLists]

Corpora == UNION { [1..n -> Records] : n \in 0..MaxRecords }

Keys == {"intents", "data"}

ListDoc(recs) == [shape |-> "list", key |-> "", recs |-> recs]
DictDoc(k, recs) == [shape |-> "dict", key |-> k, recs |-> recs]

Docs == { ListDoc(c) : c \in Corpora }
           \cup { DictDoc(k, c) : k \in Keys, c \in Corpora }

NoDoc == ListDoc(<<>>)
NoHandle == [id |-> 0, vocabulary |-> {}, classes |-> {}, intents |-> <<>>]
NoText == << "<None>" >>
Header == <<"User Input", "Chatbot Response", "Timestamp">>
Fallback == "I'm not sure I understand."

Range(f) == { f[i] : i \in DOMAIN f }

\* The data model's invariant on a corpus: at least one record, tags unique,
\* every record with at least one pattern and at least one response.
ValidCorpus(recs) ==
    /\ Len(recs) >= 1
    /\ \A i, j \in DOMAIN recs : recs[i].tag = recs[j].tag => i = j
    /\ \A i \in DOMAIN recs : recs[i].patterns # <<>> /\ recs[i].responses # <<>>

\* ---------------------------------------------------- text processing
\* str.lower on the words and responses of the universe.
Lower(w) ==
    CASE w = "Hi" -> "hi"
      [] w = "Bye" -> "bye"
      [] w = "Hello!" -> "hello!"
      [] OTHER -> w

\* Number of word characters of a word ("?" is punctuation).
WordChars(w) ==
    CASE w = "?" -> 0
      [] w = "a" -> 1
      [] w \in {"hi", "Hi"} -> 2
      [] OTHER -> 3

RECURSIVE SelectTokens(_)
SelectTokens(text) ==
    IF text = <<>> THEN <<>>
    ELSE LET rest == SelectTokens(Tail(text))
         IN  IF WordChars(Head(text)) >= 2
             THEN <<Lower(Head(text))>> \o rest
             ELSE rest

\* TfidfVectorizer's analyzer: lowercase, keep the tokens of two or more word
\* characters.
Tokenize(text) == SelectTokens(text)

\* The word n-grams, n in 1..NGramMax, of a text (ngram_range=(1, 4)).
NGrams(text) ==
    LET toks == Tokenize(text)
        spans == { q \in (1..Len(toks)) \X (1..NGramMax) : q[1] + q[2] - 1 <= Len(toks) }
    IN  { SubSeq(toks, q[1], q[1] + q[2] - 1) : q \in spans }

\* vectorizer.fit: the vocabulary of the training texts.
FitVocabulary(patterns) == UNION { NGrams(patterns[i]) : i \in DOMAIN patterns }

\* vectorizer.transform([text]): the n-grams of the text the vocabulary knows
\* (everything else weighs zero).
Transform(vocabulary, text) == NGrams(text) \cap vocabulary

\* Faulty variant: a thresholded classifier, answering "unknown" to a text that
\* shares nothing with the vocabulary.
PredictThresholded(classes, x) == IF x = {} THEN {UnknownTag} ELSE classes

\* clf.predict(x)[0]: one of the fitted labels.
Predict(classes, x) == classes

\* ------------------------------------------------------------- loader
\* Faulty variant: no unwrapping of the object shape.
NormalizeListOnly(data) == data

\* Lines 38-42: data['intents'] of an object that has the field, else data.
Normalize(data) ==
    IF data.shape = "dict" /\ data.key = "intents"
    THEN ListDoc(data.recs)
    ELSE data

RECURSIVE PairUp(_, _)
PairUp(t, patterns) ==
    IF patterns = <<>> THEN <<>>
    ELSE <<[text |-> Head(patterns), label |-> t]>> \o PairUp(t, Tail(patterns))

\* Lines 48-55: one (pattern, tag) pair per pattern, in corpus order.
RECURSIVE TrainingExamples(_)
TrainingExamples(recs) ==
    IF recs = <<>> THEN <<>>
    ELSE PairUp(Head(recs).tag, Head(recs).patterns) \o TrainingExamples(Tail(recs))

PatternsOf(examples) == [i \in DOMAIN examples |-> examples[i].text]
TagsOf(examples) == [i \in DOMAIN examples |-> examples[i].label]

\* Faulty variant: the check of line 57 left out.
NoPatternsUnchecked(patterns) == FALSE

\* Line 57: `if not patterns`.
NoPatterns(patterns) == patterns = <<>>

\* Line 31: `if not os.path.exists(file_path)`.
Missing(file) == ~file.exists

\* clf.fit(x, y): classes_ are the distinct labels; fewer than two raise.
FitClasses(y) == Range(y)

\* The body of load_and_train_model, run on the corpus file: how it ends and
\* the (vectorizer, clf, intents) it returns, as the object created by the
\* id-th run of the body.
LoadBody(file, id) ==
    IF Missing(file) THEN [outcome |-> "CorpusNotFound", handle |-> NoHandle]
    ELSE
    LET intents == Normalize(file.data)
    IN  IF intents.shape = "dict"
        THEN [outcome |-> "TypeError", handle |-> NoHandle]
        ELSE
        LET examples == TrainingExamples(intents.recs)
            patterns == PatternsOf(examples)
            vocabulary == FitVocabulary(patterns)
            classes == FitClasses(TagsOf(examples))
        IN  IF NoPatterns(patterns)
            THEN [outcome |-> "CorpusEmpty", handle |-> NoHandle]
            ELSE IF vocabulary = {}
            THEN [outcome |-> "ValueError", handle |-> NoHandle]
            ELSE IF Cardinality(classes) < 2
            THEN [outcome |-> "ValueError", handle |-> NoHandle]
            ELSE [outcome |-> "ok",
                  handle |-> [id |-> id, vocabulary |-> vocabulary,
                              classes |-> classes, intents |-> intents.recs]]

\* st.error + st.stop() end the script run; an exception crashes it.
EndOf(outcome) ==
    CASE outcome = "ok" -> "main"
      [] outcome \in {"CorpusNotFound", "CorpusEmpty"} -> "stopped"
      [] OTHER -> "crashed"

\* ------------------------------------------------------------ chatbot
\* Faulty variant: a lookup that settles for the first record when none matches.
MatchIndexOrFirst(intents, t) ==
    LET hits == { i \in DOMAIN intents : intents[i].tag = t }
    IN  IF hits # {} THEN CHOOSE i \in hits : \A j \in hits : i <= j
        ELSE IF intents = <<>> THEN 0 ELSE 1

\* Lines 76-77: the first record, in corpus order, whose tag is t (0: none).
MatchIndex(intents, t) ==
    LET hits == { i \in DOMAIN intents : intents[i].tag = t }
    IN  IF hits = {} THEN 0 ELSE CHOOSE i \in hits : \A j \in hits : i <= j

\* Faulty variant: always the first response.
ChoiceFirst(seq) == { seq[1] }

\* random.choice(seq): seq[k] for a k the generator draws below len(seq).
Choice(seq) == { seq[k] : k \in 1..Len(seq) }

\* Lines 76-80: how the lookup of tag t ends.
Resolve(intents, t) ==
    LET m == MatchIndex(intents, t)
    IN  IF m = 0 THEN { [branch |-> "fallback", value |-> Fallback] }
        ELSE IF intents[m].responses = <<>>
        THEN { [branch |-> "IndexError", value |-> ""] }
        ELSE { [branch |-> "choice", value |-> r] : r \in Choice(intents[m].responses) }

\* -------------------------------------------------------------- state
VARIABLES
    corpusFile,  \* patterns.json: [exists, data]
    cache,       \* st.cache_resource's entry for load_and_train_model (NoHandle: none)
    lock,        \* holder of the cache's compute lock (NoSession: free)
    bodyRuns,    \* runs of the body of load_and_train_model so far
    fits,        \* runs of the body that fitted the vectorizer and the classifier
    logExists,   \* os.path.exists('chat_log.csv')
    chatLog,     \* the rows of chat_log.csv
    rngDraws,    \* values drawn from the random module's global generator
    pc,          \* each session's place in its script run
    got,         \* id of the handle load_and_train_model returned to the session
    outcome,     \* how the session's run of the body ended ("": it ran none)
    prompt,      \* the session's chat input
    tag,         \* the predicted tag
    branch,      \* how chatbot's lookup ended
    response     \* chatbot's return value

shared == <<corpusFile, cache, lock, bodyRuns, fits, logExists, chatLog, rngDraws>>
vars == <<corpusFile, cache, lock, bodyRuns, fits, logExists, chatLog, rngDraws,
          pc, got, outcome, prompt, tag, branch, response>>

MissingFile == [exists |-> FALSE, data |-> NoDoc]
Files == {MissingFile} \cup { [exists |-> TRUE, data |-> d] : d \in Docs }

Greeting == [tag |-> "greeting", patterns |-> << <<"Hi">> >>,
             responses |-> <<"Hello!">>]
Bye == [tag |-> "bye", patterns |-> << <<"bye">>, <<"hi", "bye">> >>,
        responses |-> <<"Hello!", "Bye">>]

\* The corpus files of the concurrent runs: missing, without patterns, and a
\* trainable corpus in either shape.
SessionFiles ==
    { MissingFile,
      [exists |-> TRUE, data |-> ListDoc(<<>>)],
      [exists |-> TRUE, data |-> ListDoc(<<Greeting, Bye>>)],
      [exists |-> TRUE, data |-> DictDoc("intents", <<Bye, Greeting>>)] }

InitWith(files) ==
    /\ corpusFile \in files
    /\ cache = NoHandle
    /\ lock = NoSession
    /\ bodyRuns = 0
    /\ fits = 0
    /\ logExists \in BOOLEAN
    /\ chatLog = IF logExists THEN <<Header>> ELSE <<>>
    /\ rngDraws = 0
    /\ pc = [s \in Sessions |-> "start"]
    /\ got = [s \in Sessions |-> 0]
    /\ outcome = [s \in Sessions |-> ""]
    /\ prompt = [s \in Sessions |-> NoText]
    /\ tag = [s \in Sessions |-> ""]
    /\ branch = [s \in Sessions |-> ""]
    /\ response = [s \in Sessions |-> ""]

Init == InitWith(SessionFiles)

\* ------------------------------------------- load_and_train_model()
\* The cached function is called: a cache hit returns the cached object.
CacheLookup(s) ==
    /\ pc[s] = "start"
    /\ IF cache # NoHandle
       THEN /\ got' = [got EXCEPT ![s] = cache.id]
            /\ pc' = [pc EXCEPT ![s] = "main"]
       ELSE /\ pc' = [pc EXCEPT ![s] = "lock"]
            /\ UNCHANGED got
    /\ UNCHANGED <<shared, outcome, prompt, tag, branch, response>>

\* Faulty variant: no compute lock around the body.
LockIgnored(l) == TRUE

\* The compute lock can be taken.
LockFree(l) == l = NoSession

\* A cache miss takes the compute lock and looks again: another session may
\* have computed the value meanwhile.
AcquireLock(s) ==
    /\ pc[s] = "lock"
    /\ LockFree(lock)
    /\ IF cache # NoHandle
       THEN /\ got' = [got EXCEPT ![s] = cache.id]
            /\ pc' = [pc EXCEPT ![s] = "main"]
            /\ UNCHANGED lock
       ELSE /\ lock' = s
            /\ pc' = [pc EXCEPT ![s] = "body"]
            /\ UNCHANGED got
    /\ UNCHANGED <<corpusFile, cache, bodyRuns, fits, logExists, chatLog, rngDraws,
                   outcome, prompt, tag, branch, response>>

\* The body runs under the lock; only a returned value is cached, and the
\* lock is released however the body ends.
RunBody(s) ==
    /\ pc[s] = "body"
    /\ LET r == LoadBody(corpusFile, bodyRuns + 1)
       IN  /\ bodyRuns' = bodyRuns + 1
           /\ fits' = IF r.outcome = "ok" THEN fits + 1 ELSE fits
           /\ cache' = IF r.outcome = "ok" THEN r.handle ELSE cache
           /\ got' = [got EXCEPT ![s] = r.handle.id]
           /\ outcome' = [outcome EXCEPT ![s] = r.outcome]
           /\ pc' = [pc EXCEPT ![s] = EndOf(r.outcome)]
    /\ lock' = NoSession
    /\ UNCHANGED <<corpusFile, logExists, chatLog, rngDraws, prompt, tag, branch, response>>

\* ------------------------------------------------------- main, Home
\* Line 94: `if not os.path.exists('chat_log.csv')`.
EnsureLog(s) ==
    /\ pc[s] = "main"
    /\ pc' = [pc EXCEPT ![s] = IF logExists THEN "input" ELSE "create"]
    /\ UNCHANGED <<shared, got, outcome, prompt, tag, branch, response>>

\* Line 95: open(..., 'w') creates the file, or truncates the one there.
OpenWrite(s) ==
    /\ pc[s] = "create"
    /\ logExists' = TRUE
    /\ chatLog' = <<>>
    /\ pc' = [pc EXCEPT ![s] = "header"]
    /\ UNCHANGED <<corpusFile, cache, lock, bodyRuns, fits, rngDraws,
                   got, outcome, prompt, tag, branch, response>>

\* A file opened with 'w' writes at its own offset, the start of the file,
\* over what is there (to the grain of a row).
WriteAtStart(rows, row) == IF rows = <<>> THEN <<row>> ELSE <<row>> \o Tail(rows)

\* Lines 96-97: the header row reaches the file when the `with` block closes it.
WriteHeader(s) ==
    /\ pc[s] = "header"
    /\ chatLog' = WriteAtStart(chatLog, Header)
    /\ pc' = [pc EXCEPT ![s] = "input"]
    /\ UNCHANGED <<corpusFile, cache, lock, bodyRuns, fits, logExists, rngDraws,
                   got, outcome, prompt, tag, branch, response>>

\* Python truthiness of st.chat_input's value: None and "" are false.
Truthy(text) == text # NoText /\ text # <<>>

\* Line 109: `if prompt := st.chat_input(...)`.
ChatInput(s) ==
    /\ pc[s] = "input"
    /\ \E text \in SessionTexts \cup {NoText} :
          IF Truthy(text)
          THEN /\ prompt' = [prompt EXCEPT ![s] = text]
               /\ pc' = [pc EXCEPT ![s] = "predict"]
          ELSE /\ pc' = [pc EXCEPT ![s] = "done"]
               /\ UNCHANGED prompt
    /\ UNCHANGED <<shared, got, outcome, tag, branch, response>>

\* Faulty variant: fit_transform in place of transform: the cached vectorizer's
\* vocabulary grows with every text classified.
ChatbotPredictRefit(s) ==
    /\ pc[s] = "predict"
    /\ cache' = [cache EXCEPT !.vocabulary = cache.vocabulary \cup NGrams(prompt[s])]
    /\ \E t \in Predict(cache.classes, Transform(cache'.vocabulary, prompt[s])) :
          tag' = [tag EXCEPT ![s] = t]
    /\ pc' = [pc EXCEPT ![s] = "respond"]
    /\ UNCHANGED <<corpusFile, lock, bodyRuns, fits, logExists, chatLog, rngDraws,
                   got, outcome, prompt, branch, response>>

\* Lines 73-74 of chatbot, called at line 119.
ChatbotPredict(s) ==
    /\ pc[s] = "predict"
    /\ \E t \in Predict(cache.classes, Transform(cache.vocabulary, prompt[s])) :
          tag' = [tag EXCEPT ![s] = t]
    /\ pc' = [pc EXCEPT ![s] = "respond"]
    /\ UNCHANGED <<shared, got, outcome, prompt, branch, response>>

\* The ways chatbot's lookup can end.
Outcomes ==
    [branch : {"choice", "fallback", "IndexError"},
     value : {"", Fallback} \cup UNION { Range(l) : l \in ResponseLists }]

\* random.choice draws once from the global generator; the fallback and the
\* IndexError of an empty list draw nothing.
DrawsOf(b) == IF b = "choice" THEN 1 ELSE 0

\* Lines 76-80 of chatbot, ending as o.
RespondWith(s, o) ==
    /\ pc[s] = "respond"
    /\ o \in Resolve(cache.intents, tag[s])
    /\ branch' = [branch EXCEPT ![s] = o.branch]
    /\ response' = [response EXCEPT ![s] = o.value]
    /\ rngDraws' = rngDraws + DrawsOf(o.branch)
    /\ pc' = [pc EXCEPT ![s] = IF o.branch = "IndexError" THEN "crashed" ELSE "log"]
    /\ UNCHANGED <<corpusFile, cache, lock, bodyRuns, fits, logExists, chatLog,
                   got, outcome, prompt, tag>>

ChatbotRespond(s) == \E o \in Outcomes : RespondWith(s, o)

\* Lines 129-137: the row is appended (mode 'a'); a goodbye stops the run.
LogAppend(s) ==
    /\ pc[s] = "log"
    /\ chatLog' = Append(chatLog, <<prompt[s], response[s], "now">>)
    /\ logExists' = TRUE
    /\ pc' = [pc EXCEPT ![s] =
                 IF Lower(response[s]) \in {"goodbye", "bye"} THEN "stopped" ELSE "done"]
    /\ UNCHANGED <<corpusFile, cache, lock, bodyRuns, fits, rngDraws,
                   got, outcome, prompt, tag, branch, response>>

Next ==
    \E s \in Sessions :
        \/ CacheLookup(s)
        \/ AcquireLock(s)
        \/ RunBody(s)
        \/ EnsureLog(s)
        \/ OpenWrite(s)
        \/ WriteHeader(s)
        \/ ChatInput(s)
        \/ ChatbotPredict(s)
        \/ ChatbotRespond(s)
        \/ LogAppend(s)

Spec == Init /\ [][Next]_vars

\* --------------------------------------- the two calls, one at a time
\* initialize: the first call of load_and_train_model, start to end.
LoadAndTrainModel ==
    /\ pc[1] = "start"
    /\ cache = NoHandle
    /\ LockFree(lock)
    /\ LET r == LoadBody(corpusFile, bodyRuns + 1)
       IN  /\ bodyRuns' = bodyRuns + 1
           /\ fits' = IF r.outcome = "ok" THEN fits + 1 ELSE fits
           /\ cache' = IF r.outcome = "ok" THEN r.handle ELSE cache
           /\ got' = [got EXCEPT ![1] = r.handle.id]
           /\ outcome' = [outcome EXCEPT ![1] = r.outcome]
           /\ pc' = [pc EXCEPT ![1] = EndOf(r.outcome)]
    /\ UNCHANGED <<corpusFile, lock, logExists, chatLog, rngDraws,
                   prompt, tag, branch, response>>

\* respond: chatbot(input_text), start to end, drawing response o of tag t.
ChatbotCall(text, t, o) ==
    /\ pc[1] = "main"
    /\ t \in Predict(cache.classes, Transform(cache.vocabulary, text))
    /\ o \in Resolve(cache.intents, t)
    /\ prompt' = [prompt EXCEPT ![1] = text]
    /\ tag' = [tag EXCEPT ![1] = t]
    /\ branch' = [branch EXCEPT ![1] = o.branch]
    /\ response' = [response EXCEPT ![1] = o.value]
    /\ rngDraws' = rngDraws + DrawsOf(o.branch)
    /\ pc' = [pc EXCEPT ![1] = IF o.branch = "IndexError" THEN "crashed" ELSE "returned"]
    /\ UNCHANGED <<corpusFile, cache, lock, bodyRuns, fits, logExists, chatLog,
                   got, outcome>>

Chatbot == \E text \in ChatTexts, t \in TagUniverse, o \in Outcomes : ChatbotCall(text, t, o)

InitCore == InitWith(Files)

NextCore == LoadAndTrainModel \/ Chatbot

SpecCore == InitCore /\ [][NextCore]_vars

\* ---------------------------------- the lookup alone, on any tag
\* chatbot's lookup (lines 76-80) of a tag in a corpus that need not be the
\* one the tag was trained from.
InitResolve ==
    /\ corpusFile \in { [exists |-> TRUE, data |-> ListDoc(c)] : c \in Corpora }
    /\ cache = [id |-> 1, vocabulary |-> {}, classes |-> TagUniverse,
                intents |-> corpusFile.data.recs]
    /\ lock = NoSession
    /\ bodyRuns = 1
    /\ fits = 1
    /\ logExists = FALSE
    /\ chatLog = <<>>
    /\ rngDraws = 0
    /\ pc = [s \in Sessions |-> IF s = 1 THEN "respond" ELSE "done"]
    /\ got = [s \in Sessions |-> 1]
    /\ outcome = [s \in Sessions |-> ""]
    /\ prompt = [s \in Sessions |-> <<"xyz">>]
    /\ tag \in { [s \in Sessions |-> t] : t \in TagUniverse }
    /\ branch = [s \in Sessions |-> ""]
    /\ response = [s \in Sessions |-> ""]

NextResolve == ChatbotRespond(1)

SpecResolve == InitResolve /\ [][NextResolve]_vars

\* ------------------------------------------------------------- claims
\* What the claims say of a corpus file, stated on the file itself.
Accepted(file) ==
    /\ file.exists
    /\ file.data.shape = "list" \/ file.data.key = "intents"

ZeroTexts(recs) == \A i \in DOMAIN recs : recs[i].patterns = <<>>

Initialized == pc[1] # "start"
Responded == branch[1] # ""

IsPrefix(a, b) == Len(a) <= Len(b) /\ SubSeq(b, 1, Len(a)) = a

\* C1: for every valid corpus with at least one record and one pattern,
\* load_and_train_model succeeds, and chatbot then returns a string without
\* raising, whatever the input text.
C1_ValidCorpusInitializesAndResponds ==
    (Initialized /\ Accepted(corpusFile) /\ ValidCorpus(corpusFile.data.recs)) =>
        /\ outcome[1] = "ok"
        /\ cache # NoHandle
        /\ pc[1] \in {"main", "returned"}
        /\ Responded => branch[1] \in {"choice", "fallback"}

C3_LogAppendOnly ==
    [][logExists => logExists' /\ IsPrefix(chatLog, chatLog')]_vars

\* C4: a missing corpus file ends initialize with CorpusNotFound, a corpus
\* without any pattern with CorpusEmpty; either way nothing is fitted and no
\* handle is returned or cached.
C4_FatalStartupErrors ==
    Initialized =>
        /\ ~corpusFile.exists => outcome[1] = "CorpusNotFound"
        /\ Accepted(corpusFile) /\ ZeroTexts(corpusFile.data.recs)
              => outcome[1] = "CorpusEmpty"
        /\ outcome[1] \in {"CorpusNotFound", "CorpusEmpty"} =>
              /\ fits = 0
              /\ cache = NoHandle
              /\ got[1] = 0
              /\ pc[1] = "stopped"

\* Records are there, and none has a pattern.
C4_Witness ==
    /\ outcome[1] = "CorpusEmpty"
    /\ Len(corpusFile.data.recs) >= 1
    /\ corpusFile.data.key = "intents"

\* C5: the lookup of a tag no record carries returns the fallback string and
\* does not raise; the fallback branch is taken in that case only.
C5_FallbackIffNoRecord ==
    pc[1] # "respond" =>
        /\ (\A i \in DOMAIN cache.intents : cache.intents[i].tag # tag[1])
              <=> branch[1] = "fallback"
        /\ branch[1] = "fallback" => response[1] = Fallback /\ pc[1] = "log"

C5_Witness ==
    /\ branch[1] = "fallback"
    /\ tag[1] = RemovedTag
    /\ Len(cache.intents) = MaxRecords

\* C6: a document wrapping the list of records in the field 'intents' loads
\* exactly as the bare list does: same end, same records, same fitted model.
C6_ShapesLoadAlike ==
    (Initialized /\ corpusFile.exists /\ corpusFile.data.key = "intents") =>
        LET asList == LoadBody([exists |-> TRUE,
                                data |-> ListDoc(corpusFile.data.recs)], 1)
        IN  /\ outcome[1] = asList.outcome
            /\ outcome[1] = "ok" =>
                  /\ cache = asList.handle
                  /\ cache.intents = corpusFile.data.recs

C6_Witness ==
    /\ corpusFile.data.shape = "dict"
    /\ corpusFile.data.key = "intents"
    /\ outcome[1] = "ok"
    /\ Len(cache.intents) = MaxRecords

\* C7: chatbot never ends on the fallback: the predicted tag is a label of the
\* training examples, a record of the corpus carries it, and a string that is
\* returned is one of the corpus's responses (always so for a corpus that
\* keeps the data model's invariant).
C7_NeverUnknown ==
    Responded =>
        LET recs == corpusFile.data.recs
        IN  /\ \E i \in DOMAIN recs : recs[i].tag = tag[1] /\ recs[i].patterns # <<>>
            /\ \E i \in DOMAIN cache.intents : cache.intents[i].tag = tag[1]
            /\ branch[1] # "fallback"
            /\ pc[1] = "returned" =>
                  /\ branch[1] = "choice"
                  /\ \E i \in DOMAIN recs : response[1] \in Range(recs[i].responses)
                  /\ response[1] # Fallback
            /\ ValidCorpus(recs) => pc[1] = "returned"

\* A text without any word of the vocabulary still gets a response of the corpus.
C7_Witness ==
    /\ ValidCorpus(corpusFile.data.recs)
    /\ prompt[1] \in {<<"xyz">>, <<>>, <<"?">>}
    /\ branch[1] = "choice"

\* C8: every record held after a successful load has at least one pattern and
\* at least one response.
C8_RecordsComplete ==
    cache # NoHandle =>
        \A i \in DOMAIN cache.intents :
            cache.intents[i].patterns # <<>> /\ cache.intents[i].responses # <<>>

\* C9: a response that is drawn comes from the first record, in corpus order,
\* that carries the tag, and before the draw every element of that record's
\* list is a possible result of it.
C9_AnyResponseOfFirstMatch ==
    LET intents == cache.intents
        first == { i \in DOMAIN intents :
                     /\ intents[i].tag = tag[1]
                     /\ \A j \in 1..(i - 1) : intents[j].tag # tag[1] }
    IN  /\ branch[1] = "choice" =>
              \E i \in first : response[1] \in Range(intents[i].responses)
        /\ pc[1] = "respond" =>
              \A i \in first : \A r \in Range(intents[i].responses) :
                  ENABLED RespondWith(1, [branch |-> "choice", value |-> r])

\* The second response of the first of two records with the tag is returned.
C9_Witness ==
    /\ branch[1] = "choice"
    /\ Len(cache.intents) = 2
    /\ cache.intents[1].tag = tag[1]
    /\ cache.intents[2].tag = tag[1]
    /\ cache.intents[1].responses = <<"Hello!", "Bye">>
    /\ cache.intents[2].responses = <<"Hello!">>
    /\ response[1] = "Bye"

ChatbotStep(s) == ChatbotPredict(s) \/ ChatbotRespond(s)

\* C10 as stated: a chatbot call changes no shared state at all.
C10_NoSharedStateTouched ==
    [][\A s \in Sessions : ChatbotStep(s) => UNCHANGED shared]_vars

\* C10, amended: a chatbot call leaves the corpus, the cached vectorizer,
\* classifier and records, the lock and the log unchanged, changes no other
\* session's variables, and predicts one of the cached model's labels; the
\* one shared thing it changes is the global random generator it draws from.
C10_ReadOnlyButForGenerator ==
    [][\A s \in Sessions : ChatbotStep(s) =>
          /\ UNCHANGED <<corpusFile, cache, lock, bodyRuns, fits, logExists, chatLog>>
          /\ \A t \in Sessions \ {s} :
                /\ pc'[t] = pc[t] /\ got'[t] = got[t] /\ outcome'[t] = outcome[t]
                /\ prompt'[t] = prompt[t] /\ tag'[t] = tag[t]
                /\ branch'[t] = branch[t] /\ response'[t] = response[t]
          /\ tag'[s] \in cache.classes
          /\ rngDraws' \in {rngDraws, rngDraws + 1}]_vars

\* Two sessions are inside chatbot at once, one of them past its draw.
C10_Witness ==
    \E s, t \in Sessions :
        /\ s # t
        /\ pc[s] = "log" /\ branch[s] = "choice"
        /\ pc[t] = "respond"
        /\ rngDraws = 1

=============================================================================
